---- MODULE Spec2Model ----
(***************************************************************************)
(* A state-machine model of main.js: the input sampler (class Input), the  *)
(* player kinematics (class Player), the ink layer (inkCanvas), resize()   *)
(* and the requestAnimationFrame callback loop().                          *)
(*                                                                         *)
(* Numbers.  The program computes in IEEE doubles; the model computes in   *)
(* fixed point with round-to-nearest after every operation:                *)
(*   time                 milliseconds                                     *)
(*   position, lengths    CSS pixels                                       *)
(*   velocity             1/1000 pixel per second                          *)
(*   unit vectors         1/1000                                           *)
(*   revealProgress       1/1000000                                        *)
(*   ink alpha            0..255, one value per tracked ink point          *)
(* frameCount is kept modulo 5: the program reads it only as               *)
(* frameCount % 5.                                                         *)
(***************************************************************************)
EXTENDS Integers, FiniteSets, Sequences, TLC

VARIABLES
    devicePixelRatio, \* window.devicePixelRatio in 1/100 (0: unset)
    size,            \* state.size: [w, h, dpr] (dpr in 1/100)
    inkW, inkH,      \* inkCanvas.width, inkCanvas.height (device pixels)
    ink,             \* alpha of the tracked ink points inside the viewport
    keys,            \* input.keys
    pointerActive,   \* input.pointerActive
    pointerPos,      \* input.pointerPos
    pos, vel,        \* player.pos, player.vel
    hasInteracted, inkAccumulator, isRevealed, revealProgress, fadeDelay,
    frameCount, redirectTimer,
    idleTime, jiggleActive, postJigglePause, jiggleCycleCount,
    redirected,      \* window.location.href was assigned; loop() returned
                     \* without requesting another frame
    lastEvent,       \* history: the input listener that ran last
    idleClock,       \* history: clamped dt summed over the idle frames since
                     \* the latest frame that sampled active input
    steps            \* history: the callbacks a specification counts
                     \* against its budget

vars == <<devicePixelRatio, size, inkW, inkH, ink, keys, pointerActive, pointerPos, pos, vel,
          hasInteracted, inkAccumulator, isRevealed, revealProgress,
          fadeDelay, frameCount, redirectTimer, idleTime, jiggleActive,
          postJigglePause, jiggleCycleCount, redirected, lastEvent,
          idleClock, steps>>

---------------------------------------------------------------------------
(* Program constants *)

PlayerSize == 42
PlayerAccel == 1000
MaxSpeed == 500
PlayerDrag == 2500            \* 2.5 per second, in 1/1000
FollowSpeed == 12
MaxDtMs == 50                 \* clamp(.., 0, 0.05)
MaxDprPct == 150              \* Math.min(1.5, ..)
JIGGLE_DELAY == 5000
SampleStep == 30
RevealThresholdAlpha == 128
FadeWindowMs == 2000
TextDelayMs == 1500
RedirectMs == 6000
HardFillMs == 2000

WhitelistedCodes == {"ArrowUp", "ArrowDown", "ArrowLeft", "ArrowRight",
                     "KeyW", "KeyA", "KeyS", "KeyD", "Space"}

---------------------------------------------------------------------------
(* Arithmetic helpers *)

Abs(a) == IF a < 0 THEN -a ELSE a
Min(a, b) == IF a < b THEN a ELSE b
Max(a, b) == IF a > b THEN a ELSE b

\* a / b rounded to the nearest integer, ties away from zero (b > 0)
RoundDiv(a, b) ==
    IF a >= 0 THEN (2 * a + b) \div (2 * b)
    ELSE -((2 * (-a) + b) \div (2 * b))

\* a * b / c rounded, computed without leaving 32 bits
\* (0 <= b, 0 < c <= 10000, b <= 10 * c)
MulDiv(a, b, c) ==
    LET s == IF a < 0 THEN -1 ELSE 1
        m == Abs(a)
        q == m \div c
        r == m % c
    IN  s * (q * b + RoundDiv(r * b, c))

\* one step of the bitwise square root: r with bit b added if it fits
SqrtBit(n, r, b) ==
    IF r + b <= 46340 /\ (r + b) * (r + b) <= n THEN r + b ELSE r

\* floor(sqrt(n)) for 0 <= n < 2^31
SqrtFloor(n) ==
    LET r15 == SqrtBit(n, 0, 32768)
        r14 == SqrtBit(n, r15, 16384)
        r13 == SqrtBit(n, r14, 8192)
        r12 == SqrtBit(n, r13, 4096)
        r11 == SqrtBit(n, r12, 2048)
        r10 == SqrtBit(n, r11, 1024)
        r9 == SqrtBit(n, r10, 512)
        r8 == SqrtBit(n, r9, 256)
        r7 == SqrtBit(n, r8, 128)
        r6 == SqrtBit(n, r7, 64)
        r5 == SqrtBit(n, r6, 32)
        r4 == SqrtBit(n, r5, 16)
        r3 == SqrtBit(n, r4, 8)
        r2 == SqrtBit(n, r3, 4)
        r1 == SqrtBit(n, r2, 2)
    IN  SqrtBit(n, r1, 1)

\* Math.sqrt rounded to the nearest integer (0 <= n < 2^31)
SqrtRound(n, r) == IF n - r * r > r THEN r + 1 ELSE r
Sqrt(n) == SqrtRound(n, SqrtFloor(n))

\* Math.hypot(x, y): exact to one unit below 30000, to 100 units above
\* (a relative precision, as a double's is)
Hypot(x, y) ==
    IF Max(Abs(x), Abs(y)) <= 30000 THEN Sqrt(x * x + y * y)
    ELSE 100 * Sqrt(RoundDiv(x, 100) * RoundDiv(x, 100)
                    + RoundDiv(y, 100) * RoundDiv(y, 100))

clamp(v, min, max) == Max(min, Min(max, v))

\* Math.floor(a * b / c) for a, b >= 0, c > 0
FloorMul(a, b, c) == (a * b) \div c

---------------------------------------------------------------------------
(* class Vec2 *)

Vec2(x, y) == [x |-> x, y |-> y]
VecAdd(a, b) == Vec2(a.x + b.x, a.y + b.y)
VecLen(v) == Hypot(v.x, v.y)

\* Vec2.scale(num / den) for a factor 0 <= num / den <= 10, den <= 10000
VecScale(v, num, den) == Vec2(MulDiv(v.x, num, den), MulDiv(v.y, num, den))

\* Vec2.normalize: a no-op on the zero vector; result in 1/1000
NormalizeBy(v, l) ==
    IF l > 0 THEN Vec2(RoundDiv(v.x * 1000, l), RoundDiv(v.y * 1000, l)) ELSE v
normalize(v) == NormalizeBy(v, VecLen(v))

---------------------------------------------------------------------------
(* class Input *)

\* lines 93-95: normalize unless zero
AxisOf(v) == IF VecLen(v) > 0 THEN normalize(v) ELSE v

\* a getAxis in which the first key of an opposing pair wins
getAxisFirstWins(k) ==
    AxisOf(Vec2(1000 * (IF "ArrowLeft" \in k \/ "KeyA" \in k THEN -1
                        ELSE IF "ArrowRight" \in k \/ "KeyD" \in k THEN 1 ELSE 0),
                1000 * (IF "ArrowUp" \in k \/ "KeyW" \in k THEN -1
                        ELSE IF "ArrowDown" \in k \/ "KeyS" \in k THEN 1 ELSE 0)))

\* Input.getAxis, in 1/1000
getAxis(k) ==
    AxisOf(Vec2(1000 * ((IF "ArrowLeft" \in k \/ "KeyA" \in k THEN -1 ELSE 0)
                        + (IF "ArrowRight" \in k \/ "KeyD" \in k THEN 1 ELSE 0)),
                1000 * ((IF "ArrowUp" \in k \/ "KeyW" \in k THEN -1 ELSE 0)
                        + (IF "ArrowDown" \in k \/ "KeyS" \in k THEN 1 ELSE 0))))

\* Input.getPointerTarget: <<>> stands for null, <<p>> for a clone of p
getPointerTarget(active, p) == IF active THEN <<p>> ELSE <<>>

---------------------------------------------------------------------------
(* class Player *)

Half == PlayerSize \div 2

\* Math.exp(-this.drag * dt) in 1/10000, dt in ms (Taylor series, the
\* fourth-order term is below 1/10000 for dt <= 50)
DragFactor(dt) ==
    LET x == (PlayerDrag * dt) \div 100
    IN  10000 - x + RoundDiv(x * x, 20000) - RoundDiv(((x * x) \div 100) * x, 6000000)

\* a pointer follow that never snaps to the target
FollowStepNoSnap(p, dx, dy, t) ==
    [pos |-> p, vel |-> Vec2(dx * FollowSpeed * 1000, dy * FollowSpeed * 1000)]

\* lines 114-127: pointer follow toward t; the velocity, and on a snap the
\* position
FollowStep(p, dx, dy, t) ==
    IF dx * dx + dy * dy > 1
    THEN [pos |-> p, vel |-> Vec2(dx * FollowSpeed * 1000, dy * FollowSpeed * 1000)]
    ELSE [pos |-> t, vel |-> Vec2(0, 0)]

\* lines 129-137: keyboard control in direction dir
KeyboardStep(p, v, dt, dir) ==
    [pos |-> p,
     vel |-> VecScale(IF VecLen(dir) > 0
                      THEN VecAdd(v, Vec2((dir.x * PlayerAccel * dt) \div 1000,
                                          (dir.y * PlayerAccel * dt) \div 1000))
                      ELSE v,
                      DragFactor(dt), 10000)]

\* lines 112-143: the control modes
ControlStep(p, v, dt, target, k, allowInput) ==
    IF target # <<>> /\ allowInput
    THEN FollowStep(p, target[1].x - p.x, target[1].y - p.y, target[1])
    ELSE IF allowInput THEN KeyboardStep(p, v, dt, getAxis(k))
    ELSE [pos |-> p, vel |-> VecScale(v, DragFactor(dt), 10000)]

\* lines 147-148: v of length speed, rescaled if too fast
ScaleToMax(v, speed) ==
    IF speed > MaxSpeed * 1000
    THEN VecScale(v, RoundDiv(MaxSpeed * 100000, speed \div 100), 10000)
    ELSE v

\* an update without the speed clamp
ClampSpeedSkipped(v) == v

\* lines 145-149: clamp max speed
ClampSpeed(v) == ScaleToMax(v, VecLen(v))

\* lines 158-162: one velocity component after the edge test
Bounce(c, v, lo, hi) ==
    LET v1 == IF c = lo /\ v < 0 THEN -RoundDiv(3 * v, 10) ELSE v
    IN  IF c = hi /\ v1 > 0 THEN -RoundDiv(3 * v1, 10) ELSE v1

\* lines 158-162: the bounce on both axes
BounceAt(px, py, v, sz) ==
    [pos |-> Vec2(px, py),
     vel |-> Vec2(Bounce(px, v.x, Half, sz.w - Half),
                  Bounce(py, v.y, Half, sz.h - Half))]

\* lines 151-156: integrate and clamp the position
Integrate(p, v, dt, sz) ==
    BounceAt(clamp(p.x + RoundDiv(v.x * dt, 1000000), Half, sz.w - Half),
             clamp(p.y + RoundDiv(v.y * dt, 1000000), Half, sz.h - Half), v, sz)

\* lines 145-162, from the control step's result c
ClampAndMove(c, dt, sz) == Integrate(c.pos, ClampSpeed(c.vel), dt, sz)

\* Player.update(dt, input, allowInput)
PlayerUpdate(p, v, dt, target, k, allowInput, sz) ==
    ClampAndMove(ControlStep(p, v, dt, target, k, allowInput), dt, sz)
---------------------------------------------------------------------------
(* The ink layer: inkCanvas, written through inkCtx *)

MinSide(sz) == Min(sz.w, sz.h)

\* calculateRevealPercentage's sample grid (lines 551-567), in half pixels;
\* each sample is named by the CSS pixel that holds it
SampleGrid(sz) ==
    LET cx == sz.w \div 2
        cy == sz.h \div 2
        sampleWidth == FloorMul(MinSide(sz), 50, 100)
        sampleHeight == FloorMul(MinSide(sz), 15, 100)
        x0 == Max(0, 2 * cx - sampleWidth)
        y0 == Max(0, 2 * cy - sampleHeight)
        x1 == Min(2 * sz.w, 2 * cx + sampleWidth)
        y1 == Min(2 * sz.h, 2 * cy + sampleHeight)
    IN  {Vec2((x0 + 2 * SampleStep * i) \div 2, (y0 + 2 * SampleStep * j) \div 2) :
            <<i, j>> \in {ij \in (0..(sz.w \div SampleStep)) \X (0..(sz.h \div SampleStep)) :
                             /\ x0 + 2 * SampleStep * ij[1] < x1
                             /\ y0 + 2 * SampleStep * ij[2] < y1}}

\* a resize() without the cap on the device pixel ratio
EffectiveDprUncapped(ratio) == IF ratio = 0 THEN 100 ELSE ratio

\* the device pixel ratio resize() uses: Math.min(1.5, devicePixelRatio || 1)
EffectiveDpr(ratio) == Min(MaxDprPct, IF ratio = 0 THEN 100 ELSE ratio)

InView(p, w, h) == p.x >= 0 /\ p.y >= 0 /\ p.x < w /\ p.y < h

\* a fill that adds the source alpha without compositing
SourceOverAdditive(a, s) == a + s

\* 'source-over' fill of opaque black at globalAlpha s / 255
SourceOver(a, s) == s + RoundDiv(a * (255 - s), 255)

\* 'destination-out' fill at alpha s / 255
DestinationOut(a, s) == RoundDiv(a * (255 - s), 255)

\* lines 798-801: alphaStep as an 8-bit alpha
ReinkAlpha(acc, dt) ==
    LET boost == Min(8000, 1000 + acc * 10)
        alphaStep == Min(1000000, (3 * boost * dt) \div 10)
    IN  RoundDiv(255 * alphaStep, 1000000)

\* lines 824-829: the brush radius in 1/1000 pixel, speed in 1/1000 px/s
BrushRadius(speed, sz) ==
    LET base == PlayerSize * 450
        maxScreenRadius == MinSide(sz) * 120
        sNorm == Min(1000000, speed * 2)
        ease == Sqrt(sNorm)
    IN  Max(18000, base + RoundDiv(ease * (maxScreenRadius - base), 1000))

\* lines 845-846
JiggleRadius == Max(18000, PlayerSize * 450)

\* lines 832-835: the radial gradient in 1/1000 at t / 1000 of the radius:
\* 1.0 at the centre, 0.15 at 0.6 of the radius, 0 at the edge
GradientAt(t) ==
    IF t <= 600 THEN 1000 - RoundDiv(850 * t, 600)
    ELSE RoundDiv(150 * (1000 - t), 400)

\* the gradient's 8-bit alpha at distance d (1/1000 pixel) from the centre
AlphaAtDistance(d, radius) ==
    IF d > radius THEN 0
    ELSE RoundDiv(255 * GradientAt(RoundDiv(d * 1000, radius)), 1000)

\* Math.sqrt(d2) in 1/1000 pixel; beyond every brush from 447 pixels on
DistanceOf(d2) == IF d2 > 200000 THEN 1000000 ELSE 10 * Sqrt(d2 * 10000)

\* the brush's alpha at point p for a brush at c
BrushAlpha(p, c, radius) ==
    AlphaAtDistance(DistanceOf((p.x - c.x) * (p.x - c.x)
                               + (p.y - c.y) * (p.y - c.y)), radius)

Erase(layer, c, radius) ==
    [p \in DOMAIN layer |-> DestinationOut(layer[p], BrushAlpha(p, c, radius))]

\* calculateRevealPercentage() >= 0.98
RevealReached(layer, interacted, sz) ==
    LET samples == SampleGrid(sz) \cap DOMAIN layer
        total == Cardinality(SampleGrid(sz))
        revealed == Cardinality({p \in samples : layer[p] < RevealThresholdAlpha})
    IN  interacted /\ total > 0 /\ revealed * 100 >= 98 * total
---------------------------------------------------------------------------
(* Bounds of the model *)

InkAccumulatorCap == 2100    \* inkAccumulator saturates here: the program
                             \* reads it only as min(8, 1 + 10 * acc) and
                             \* as acc > 2
JiggleCycleCap == 3          \* jiggleCycleCount saturates here: the program
                             \* reads it only as min(6, 2 + 2 * c) and
                             \* min(3, 1 + c)
IdleClockCap == 2100         \* the history variable idleClock saturates here
MaxEvents == 2               \* input and resize events in a run of Spec
MaxKinSteps == 2             \* frames and resizes in a run of SpecKin
MaxHintSteps == 2            \* events and frames with input in a run of
                             \* SpecHint

\* (cos(4 t), sin(6 t)) in 1/1000, t = Date.now() / 1000: Date.now() advances
\* with the frames, and the two phases alternate every quarter second
PhaseAt(it) ==
    IF (it \div 250) % 2 = 0
    THEN [c |-> 1000, s |-> 0]
    ELSE [c |-> -1000, s |-> -1000]

---------------------------------------------------------------------------
(* loop(now): one animation frame.  gap = now - last in ms; phase is the   *)
(* value of Date.now() read by the jiggle block.                           *)

\* a dt clamped to 0.1 s instead of 0.05 s
FrameDtLoose(gap) == clamp(gap, 0, 2 * MaxDtMs)

\* line 581
FrameDt(gap) == clamp(gap, 0, MaxDtMs)

\* a loop that keeps passing allowInput = true after the reveal
LoopPlayerUpdateAllowing(p, v, dt, active, ptr, k, revealed, sz) ==
    PlayerUpdate(p, v, dt, getPointerTarget(active, ptr), k, TRUE, sz)

\* line 707: player.update(dt, input, !isRevealed)
LoopPlayerUpdate(p, v, dt, active, ptr, k, revealed, sz) ==
    PlayerUpdate(p, v, dt, getPointerTarget(active, ptr), k, ~revealed, sz)

\* an isActive that counts every frame as active, as one derived from the
\* player's motion would during the jiggle
UserInputOrMotion(active, k) == TRUE

\* line 741
UserInput(active, k) == active \/ k # {}

\* lines 590-603: fadeDelay and the ink layer after the bleed
EpilogueFade(layer, revealed, fd, dt) ==
    IF revealed /\ fd < FadeWindowMs
    THEN [fadeDelay |-> fd + dt,
          ink |-> [p \in DOMAIN layer |->
                     DestinationOut(layer[p], RoundDiv(255 * (fd + dt), 2 * FadeWindowMs))]]
    ELSE [fadeDelay |-> fd, ink |-> layer]

\* a text rise that does not wait for the fade timer
EpilogueProgressEarly(revealed, fd, rp, dt) ==
    IF revealed /\ rp < 1000000 THEN Min(1000000, rp + dt * 333) ELSE rp

\* a text rise that approaches the end of its animation and never completes
EpilogueProgressStalled(revealed, fd, rp, dt) ==
    IF revealed /\ fd >= TextDelayMs /\ rp < 1000000
    THEN Min(999999, rp + dt * 333)
    ELSE rp

\* lines 604-606
EpilogueProgress(revealed, fd, rp, dt) ==
    IF revealed /\ fd >= TextDelayMs /\ rp < 1000000
    THEN Min(1000000, rp + dt * 333)
    ELSE rp

\* lines 709-736: the jiggle block
JiggleStep(v, dt, phase, ja, interacted, it, pjp, jcc) ==
    IF ja /\ ~interacted THEN
        LET maxAmplitudeForCycle == Min(6, 2 + jcc * 2)
            amplitude == Min(maxAmplitudeForCycle, 1 + (it \div 500))
            it1 == it + dt
            done == it1 >= Min(3000, 1000 + 1000 * jcc)
        IN  [vel |-> Vec2(phase.c * amplitude * 20, phase.s * amplitude * 16),
             jiggleActive |-> ~done,
             idleTime |-> IF done THEN 0 ELSE it1,
             postJigglePause |-> IF done THEN 0 ELSE pjp,
             jiggleCycleCount |-> IF done THEN Min(JiggleCycleCap, jcc + 1) ELSE jcc]
    ELSE [vel |-> v, jiggleActive |-> ja, idleTime |-> it,
          postJigglePause |-> pjp, jiggleCycleCount |-> jcc]

\* a hint that input does not stop
HintStepNoStop(j, interacted, isActive, speed, dt) ==
    IF ~interacted /\ ~isActive /\ speed < 100 /\ ~j.jiggleActive
    THEN IF j.postJigglePause + dt >= JIGGLE_DELAY
         THEN [j EXCEPT !.jiggleActive = TRUE, !.idleTime = 0,
                        !.postJigglePause = 0]
         ELSE [j EXCEPT !.postJigglePause = @ + dt]
    ELSE j

\* lines 743-776: hasInteracted and the jiggle hint's timers
HintStep(j, interacted, isActive, speed, dt) ==
    LET first == ~interacted /\ isActive
        j1 == IF first /\ j.jiggleActive
              THEN [j EXCEPT !.jiggleActive = FALSE, !.idleTime = 0,
                             !.postJigglePause = 0, !.jiggleCycleCount = 0]
              ELSE j
        hi == interacted \/ isActive
    IN  IF ~hi /\ ~isActive THEN
            IF speed < 100 /\ ~j1.jiggleActive THEN
                IF j1.postJigglePause + dt >= JIGGLE_DELAY
                THEN [j1 EXCEPT !.jiggleActive = TRUE, !.idleTime = 0,
                                !.postJigglePause = 0]
                ELSE [j1 EXCEPT !.postJigglePause = @ + dt]
            ELSE j1
        ELSE IF isActive THEN
            [j1 EXCEPT !.jiggleActive = FALSE, !.idleTime = 0,
                       !.postJigglePause = 0, !.jiggleCycleCount = 0]
        ELSE j1

\* a reveal check that assigns the sampled result instead of latching it
RevealCheckUnlatched(revealed, interacted, isActive, fc, reached) ==
    IF interacted /\ isActive /\ fc = 0 THEN reached ELSE revealed

\* a reveal check throttled to the frame after the sampling frame
RevealCheckOffBeat(revealed, interacted, isActive, fc, reached) ==
    revealed \/ (interacted /\ isActive /\ fc = 1 /\ reached)

\* lines 779-784: isRevealed after the throttled reveal check
RevealCheck(revealed, interacted, isActive, fc, reached) ==
    revealed \/ (interacted /\ isActive /\ fc = 0 /\ reached)

\* line 822: the brush erases
BrushErases(interacted, isActive, revealed) ==
    interacted /\ isActive /\ ~revealed

\* an erase that does not wait for the jiggle
JiggleErasesAlways(ja, interacted, revealed) == ~interacted /\ ~revealed

\* line 844: the jiggle erases
JiggleErases(ja, interacted, revealed) == ja /\ ~interacted /\ ~revealed

\* lines 788-794: whether the re-ink block runs, and inkAccumulator after it
ReinkRuns(interacted, pjp, it, revealed) ==
    (interacted \/ pjp > 0 \/ it > 0) /\ ~revealed

\* an accumulator that input and the jiggle do not reset
ReinkAccumulateNoReset(acc, isActive, ja, dt) == Min(InkAccumulatorCap, acc + dt)

ReinkAccumulate(acc, isActive, ja, dt) ==
    IF isActive \/ ja THEN 0 ELSE Min(InkAccumulatorCap, acc + dt)

\* a re-ink without the hard fill of lines 811-814
ReinkSoftOnly(layer, acc, dt) ==
    [p \in DOMAIN layer |-> SourceOver(layer[p], ReinkAlpha(acc, dt))]

\* a re-ink whose fill replaces the alpha ('copy') instead of compositing
ReinkCopy(layer, acc, dt) ==
    IF acc > HardFillMs THEN [p \in DOMAIN layer |-> 255]
    ELSE [p \in DOMAIN layer |-> ReinkAlpha(acc, dt)]

\* lines 796-814: the source-over fill and the hard fill
Reink(layer, acc, dt) ==
    IF acc > HardFillMs THEN [p \in DOMAIN layer |-> 255]
    ELSE [p \in DOMAIN layer |-> SourceOver(layer[p], ReinkAlpha(acc, dt))]

\* lines 822 and 844: an erase that runs only under its guard
EraseIf(erases, layer, c, radius) ==
    IF erases THEN Erase(layer, c, radius) ELSE layer

\* line 788: the re-ink fill runs only under its guard
ReinkIf(runs, layer, acc, dt) == IF runs THEN Reink(layer, acc, dt) ELSE layer

\* lines 786-874 of a frame that did not redirect.  p, v and speed are the
\* player's after the update and the jiggle block, j the hint's timers, rev
\* the reveal flag, runs and acc1 the re-ink guard and the accumulator
LoopInk(dt, layer, isActive, hi, p, v, speed, j, rev, runs, acc1) ==
    /\ redirected' = FALSE
    /\ pos' = p
    /\ vel' = v
    /\ hasInteracted' = hi
    /\ isRevealed' = rev
    /\ inkAccumulator' = IF j.jiggleActive /\ ~hi THEN 0 ELSE acc1
    /\ ink' = EraseIf(JiggleErases(j.jiggleActive, hi, rev),
                      EraseIf(BrushErases(hi, isActive, rev),
                              ReinkIf(runs, layer, acc1, dt),
                              p, BrushRadius(speed, size)),
                      p, JiggleRadius)
    /\ idleTime' = j.idleTime
    /\ jiggleActive' = j.jiggleActive
    /\ postJigglePause' = j.postJigglePause
    /\ jiggleCycleCount' = j.jiggleCycleCount

\* lines 788-794
LoopReink(dt, layer, isActive, hi, p, v, speed, j, rev, runs) ==
    LoopInk(dt, layer, isActive, hi, p, v, speed, j, rev, runs,
            IF runs
            THEN ReinkAccumulate(inkAccumulator, isActive, j.jiggleActive, dt)
            ELSE inkAccumulator)

\* line 788
LoopRevealed(dt, layer, isActive, hi, p, v, speed, j, rev) ==
    LoopReink(dt, layer, isActive, hi, p, v, speed, j, rev,
              ReinkRuns(hi, j.postJigglePause, j.idleTime, rev))

\* lines 738-784.  j0 is the jiggle block's result, speed = player.vel.len()
LoopHint(dt, fc, layer, isActive, hi, p, j0, speed) ==
    LoopRevealed(dt, layer, isActive, hi, p, j0.vel, speed,
                 HintStep(j0, hasInteracted, isActive, speed, dt),
                 RevealCheck(isRevealed, hi, isActive, fc,
                             RevealReached(layer, hi, size)))

\* lines 738-745
LoopJiggle(dt, fc, layer, isActive, p, j0) ==
    LoopHint(dt, fc, layer, isActive, hasInteracted \/ isActive, p, j0,
             VecLen(j0.vel))

\* lines 709-736.  u is the result of player.update
LoopUpdate(dt, phase, fc, layer, isActive, u) ==
    LoopJiggle(dt, fc, layer, isActive, u.pos,
               JiggleStep(u.vel, dt, phase, jiggleActive, hasInteracted,
                          idleTime, postJigglePause, jiggleCycleCount))

\* lines 583-707.  fade is the epilogue bleed's result, rp and rt the new
\* revealProgress and redirectTimer
LoopEpilogue(dt, phase, fc, fade, rp, rt, isActive) ==
    /\ frameCount' = fc
    /\ fadeDelay' = fade.fadeDelay
    /\ revealProgress' = rp
    /\ redirectTimer' = rt
    /\ idleClock' = IF isActive THEN 0 ELSE Min(IdleClockCap, idleClock + dt)
    /\ UNCHANGED <<devicePixelRatio, size, inkW, inkH, keys, pointerActive,
                   pointerPos>>
    /\ IF isRevealed /\ rp >= 1000000 /\ rt >= RedirectMs
       THEN \* lines 690-694: redirect and return
            /\ redirected' = TRUE
            /\ ink' = fade.ink
            /\ UNCHANGED <<pos, vel, hasInteracted, inkAccumulator,
                           isRevealed, idleTime, jiggleActive,
                           postJigglePause, jiggleCycleCount>>
       ELSE LoopUpdate(dt, phase, fc, fade.ink, isActive,
                       LoopPlayerUpdate(pos, vel, dt, pointerActive,
                                        pointerPos, keys, isRevealed, size))

\* lines 643-644
LoopTimers(dt, phase, fc, fade, rp, isActive) ==
    LoopEpilogue(dt, phase, fc, fade, rp,
                 IF isRevealed /\ rp >= 1000000 THEN redirectTimer + dt
                 ELSE redirectTimer,
                 isActive)

\* lines 604-607
LoopFade(dt, phase, fc, fade, isActive) ==
    LoopTimers(dt, phase, fc, fade,
               EpilogueProgress(isRevealed, fade.fadeDelay, revealProgress, dt),
               isActive)

\* lines 581-603
LoopFrame(dt, phase) ==
    LoopFade(dt, phase, (frameCount + 1) % 5,
             EpilogueFade(ink, isRevealed, fadeDelay, dt),
             UserInput(pointerActive, keys))

\* loop(now), lines 580-874
Loop(gap, phase) == ~redirected /\ LoopFrame(FrameDt(gap), phase)

---------------------------------------------------------------------------
(* resize(), then the resize listener of lines 877-882 *)

FullInk(points, w, h) == [p \in {q \in points : InView(q, w, h)} |-> 255]

\* resize(), lines 30-48, for innerWidth w, innerHeight h and a
\* devicePixelRatio of ratio / 100 (0: unset)
ResizeState(points, w, h, ratio) ==
    LET dpr == EffectiveDpr(ratio)
    IN  [size |-> [w |-> w, h |-> h, dpr |-> dpr],
         inkW |-> FloorMul(w, dpr, 100),
         inkH |-> FloorMul(h, dpr, 100),
         ink |-> FullInk(points, w, h)]

\* a resize without the re-clamp listener
ReclampSkipped(p, sz) == p

\* lines 878-881
ReclampPlayer(p, sz) ==
    Vec2(clamp(p.x, Half, sz.w - Half), clamp(p.y, Half, sz.h - Half))

---------------------------------------------------------------------------
(* Input._bind: the event listeners *)

\* line 73: start; line 74: move; line 75: end
PointerStart(p) == [active |-> TRUE, pos |-> p]
PointerMoveTo(active, old, p) == [active |-> active, pos |-> IF active THEN p ELSE old]
PointerEnd(old) == [active |-> FALSE, pos |-> old]

\* lines 64-70
KeysAfterDown(k, code) == IF code \in WhitelistedCodes THEN k \cup {code} ELSE k

\* line 71
KeysAfterUp(k, code) == k \ {code}
---------------------------------------------------------------------------
(* The environment of the model: the windows, events and frame gaps tried *)

\* <<innerWidth, innerHeight, devicePixelRatio * 100>>
InitWindow == <<80, 44, 100>>
Windows == {<<80, 44, 100>>, <<40, 30, 200>>}
\* the windows of SpecKin
KinWindows == Windows \cup {<<60, 44, 100>>}

\* the ink points tracked: every sample of calculateRevealPercentage in the
\* windows tried, and a corner pixel
InkPoints ==
    UNION {SampleGrid([w |-> win[1], h |-> win[2]]) : win \in KinWindows}
    \cup {Vec2(2, 2)}

Codes == {"KeyD"}
PointerPoints == {Vec2(29, 19), Vec2(70, 30)}
Gaps == {50}

---------------------------------------------------------------------------
(* Initial state: lines 28, 50, 184-207, 579 *)

Init ==
    LET r == ResizeState(InkPoints, InitWindow[1], InitWindow[2], InitWindow[3])
    IN  /\ devicePixelRatio = InitWindow[3]
        /\ size = r.size
        /\ inkW = r.inkW
        /\ inkH = r.inkH
        /\ ink = r.ink
        /\ keys = {}
        /\ pointerActive = FALSE
        /\ pointerPos = Vec2(0, 0)
        /\ pos = Vec2(r.size.w \div 2, r.size.h \div 2)
        /\ vel = Vec2(0, 0)
        /\ hasInteracted = FALSE
        /\ inkAccumulator = 0
        /\ isRevealed = FALSE
        /\ revealProgress = 0
        /\ fadeDelay = 0
        /\ frameCount = 0
        /\ redirectTimer = 0
        /\ idleTime = 0
        /\ jiggleActive = FALSE
        /\ postJigglePause = 0
        /\ jiggleCycleCount = 0
        /\ redirected = FALSE
        /\ lastEvent = "init"
        /\ idleClock = 0
        /\ steps = 0

---------------------------------------------------------------------------
(* Actions: one per callback *)

InputVars == <<keys, pointerActive, pointerPos>>
SceneVars == <<hasInteracted, inkAccumulator, isRevealed, revealProgress,
               fadeDelay, frameCount, redirectTimer, idleTime, jiggleActive,
               postJigglePause, jiggleCycleCount, redirected, idleClock>>
CanvasVars == <<devicePixelRatio, size, inkW, inkH, ink>>

KeyDown(code) ==
    /\ keys' = KeysAfterDown(keys, code)
    /\ UNCHANGED <<pointerActive, pointerPos, pos, vel, SceneVars, CanvasVars>>

KeyUp(code) ==
    /\ keys' = KeysAfterUp(keys, code)
    /\ UNCHANGED <<pointerActive, pointerPos, pos, vel, SceneVars, CanvasVars>>

PointerDown(p) ==
    /\ pointerActive' = PointerStart(p).active
    /\ pointerPos' = PointerStart(p).pos
    /\ UNCHANGED <<keys, pos, vel, SceneVars, CanvasVars>>

PointerMove(p) ==
    /\ pointerActive' = PointerMoveTo(pointerActive, pointerPos, p).active
    /\ pointerPos' = PointerMoveTo(pointerActive, pointerPos, p).pos
    /\ UNCHANGED <<keys, pos, vel, SceneVars, CanvasVars>>

PointerUp ==
    /\ pointerActive' = PointerEnd(pointerPos).active
    /\ pointerPos' = PointerEnd(pointerPos).pos
    /\ UNCHANGED <<keys, pos, vel, SceneVars, CanvasVars>>

\* a pointercancel that is not bound to end
PointerCancelIgnored ==
    UNCHANGED <<keys, pointerActive, pointerPos, pos, vel, SceneVars, CanvasVars>>

PointerCancel ==
    /\ pointerActive' = PointerEnd(pointerPos).active
    /\ pointerPos' = PointerEnd(pointerPos).pos
    /\ UNCHANGED <<keys, pos, vel, SceneVars, CanvasVars>>

\* the three 'resize' listeners in registration order: resize() (line 49),
\* updateAlbumPositions (line 543, DOM only), the player re-clamp (line 877)
Resize(w, h, ratio) ==
    LET r == ResizeState(InkPoints, w, h, ratio)
    IN  /\ <<w, h>> # <<size.w, size.h>>
        /\ devicePixelRatio' = ratio
        /\ size' = r.size
        /\ inkW' = r.inkW
        /\ inkH' = r.inkH
        /\ ink' = r.ink
        /\ pos' = ReclampPlayer(pos, r.size)
        /\ UNCHANGED <<vel, InputVars, SceneVars>>

Frame == \E gap \in Gaps : Loop(gap, PhaseAt(idleTime))

\* Spec tries the events that change the sampler's state; SpecInput below
\* tries them all
KeyEvent ==
    \E code \in Codes :
        \/ code \notin keys /\ KeyDown(code)
        \/ code \in keys /\ KeyUp(code)

PointerEvent ==
    \/ \E p \in PointerPoints : ~pointerActive /\ PointerDown(p)
    \/ \E p \in PointerPoints : pointerActive /\ p # pointerPos /\ PointerMove(p)
    \/ pointerActive /\ PointerUp
    \/ pointerActive /\ PointerCancel

ResizeEvent == \E win \in Windows : Resize(win[1], win[2], win[3])

\* Spec: the program from its start.  Frames are unbounded; the input and
\* resize events of a run are bounded by MaxEvents
Event == KeyEvent \/ PointerEvent \/ ResizeEvent

\* in Spec the first input arrives before the jiggle hint starts
\* (SpecHint below runs the hint)
BeforeHint == hasInteracted \/ postJigglePause + MaxDtMs < JIGGLE_DELAY

Next ==
    \/ BeforeHint /\ Frame /\ UNCHANGED <<steps, lastEvent>>
    \/ /\ steps < MaxEvents
       /\ Event
       /\ steps' = steps + 1
       /\ UNCHANGED lastEvent

Spec == Init /\ [][Next]_vars

---------------------------------------------------------------------------
(* SpecInput: the Input sampler alone, under every event of its listeners *)

\* every whitelisted code and one that is not
InputCodes == WhitelistedCodes \cup {"KeyH"}

NextInput ==
    \/ \E code \in InputCodes :
           KeyDown(code) /\ lastEvent' = "keydown" /\ UNCHANGED steps
    \/ \E code \in InputCodes :
           KeyUp(code) /\ lastEvent' = "keyup" /\ UNCHANGED steps
    \/ \E p \in PointerPoints :
           PointerDown(p) /\ lastEvent' = "pointerdown" /\ UNCHANGED steps
    \/ \E p \in PointerPoints :
           PointerMove(p) /\ lastEvent' = "pointermove" /\ UNCHANGED steps
    \/ PointerUp /\ lastEvent' = "pointerup" /\ UNCHANGED steps
    \/ PointerCancel /\ lastEvent' = "pointercancel" /\ UNCHANGED steps

SpecInput == Init /\ [][NextInput]_vars

---------------------------------------------------------------------------
(* SpecKin: frames and resizes from the states of a scene in play, for the
   properties of one player.update or one resize *)

KinGaps == {-5, 16, 3000}
KinVelocities == {-300000, 0, 240000}
KinKeySets == {{}, {"KeyD"}, {"ArrowLeft", "KeyS"}}
\* <<pointerActive, pointerPos>>; pointer capture reports points outside
KinPointers ==
    {<<FALSE, Vec2(0, 0)>>, <<TRUE, Vec2(29, 19)>>, <<TRUE, Vec2(95, 22)>>}

\* the window's centre and the corners of the player's range
KinPositions(sz) ==
    {Vec2(sz.w \div 2, sz.h \div 2)}
    \cup {Vec2(x, y) : x \in {Half, sz.w - Half}, y \in {Half, sz.h - Half}}

InitKin ==
    LET r == ResizeState(InkPoints, InitWindow[1], InitWindow[2], InitWindow[3])
    IN  /\ devicePixelRatio = InitWindow[3]
        /\ size = r.size
        /\ inkW = r.inkW
        /\ inkH = r.inkH
        /\ ink = r.ink
        /\ keys \in KinKeySets
        /\ \E ptr \in KinPointers : pointerActive = ptr[1] /\ pointerPos = ptr[2]
        /\ pos \in KinPositions(r.size)
        /\ vel \in {Vec2(x, y) : x \in KinVelocities, y \in KinVelocities}
        /\ hasInteracted = TRUE
        /\ inkAccumulator = 0
        /\ isRevealed \in BOOLEAN
        /\ revealProgress = 0
        /\ fadeDelay = 0
        /\ frameCount = 0
        /\ redirectTimer = 0
        /\ idleTime = 0
        /\ jiggleActive = FALSE
        /\ postJigglePause = 0
        /\ jiggleCycleCount = 0
        /\ redirected = FALSE
        /\ lastEvent = "init"
        /\ idleClock = 0
        /\ steps = 0

FrameKin == \E gap \in KinGaps : Loop(gap, PhaseAt(idleTime))

ResizeKin == \E win \in KinWindows : Resize(win[1], win[2], win[3])

NextKin ==
    /\ steps < MaxKinSteps
    /\ steps' = steps + 1
    /\ UNCHANGED lastEvent
    /\ (FrameKin \/ ResizeKin)

SpecKin == InitKin /\ [][NextKin]_vars

---------------------------------------------------------------------------
(* SpecBounce: SpecKin with resizes to viewports exactly as wide or as high
   as the player *)

BounceWindows == KinWindows \cup {<<42, 44, 100>>, <<80, 42, 100>>}

ResizeBounce == \E win \in BounceWindows : Resize(win[1], win[2], win[3])

NextBounce ==
    /\ steps < MaxKinSteps
    /\ steps' = steps + 1
    /\ UNCHANGED lastEvent
    /\ (FrameKin \/ ResizeBounce)

SpecBounce == InitKin /\ [][NextBounce]_vars

---------------------------------------------------------------------------
(* SpecHint: the page left idle until the jiggle hint runs; then input *)

FrameHint == \E gap \in Gaps : Loop(gap, PhaseAt(idleTime))

NextHint ==
    \/ /\ ~UserInput(pointerActive, keys)
       /\ FrameHint
       /\ UNCHANGED <<steps, lastEvent>>
    \/ /\ steps < MaxHintSteps
       /\ UserInput(pointerActive, keys)
       /\ FrameHint
       /\ steps' = steps + 1
       /\ UNCHANGED lastEvent
    \/ /\ steps < MaxHintSteps
       /\ (KeyEvent \/ PointerEvent)
       /\ steps' = steps + 1
       /\ UNCHANGED lastEvent

SpecHint == Init /\ [][NextHint]_vars

---------------------------------------------------------------------------
(* Properties *)

\* steps of the frame loop and of the resize listeners
FrameStep == frameCount' # frameCount
UpdateStep == FrameStep /\ ~redirected'
ResizeStep == size' # size

InBounds(p, sz) ==
    /\ Half <= p.x /\ p.x <= sz.w - Half
    /\ Half <= p.y /\ p.y <= sz.h - Half

FullCoverage(layer) == \A p \in DOMAIN layer : layer[p] = 255

\* a * a as <<high, low>> in base 1000000, for |a| < 30000000
Square(a) ==
    LET hi == Abs(a) \div 1000
        lo == Abs(a) % 1000
        cross == 2 * hi * lo
        low == (cross % 1000) * 1000 + lo * lo
    IN  <<hi * hi + cross \div 1000 + low \div 1000000, low % 1000000>>

\* |v|^2, exactly, as <<high, low>>
NormSquared(v) ==
    LET sx == Square(v.x)
        sy == Square(v.y)
    IN  <<sx[1] + sy[1] + (sx[2] + sy[2]) \div 1000000, (sx[2] + sy[2]) % 1000000>>

\* |v| <= |w|
NoFaster(v, w) ==
    LET a == NormSquared(v)
        b == NormSquared(w)
    IN  a[1] < b[1] \/ (a[1] = b[1] /\ a[2] <= b[2])

\* C1: once isRevealed is true, no frame, input event or resize sets it back
\* to false
C1_RevealLatches == [][isRevealed => isRevealed']_vars

\* the reveal has fired and the epilogue has run on into the redirect countdown
C1_Witness == isRevealed /\ redirectTimer > 0 /\ steps = MaxEvents

\* C2 (as amended): in a viewport at least as wide and as high as the player,
\* the player's position is within [size/2, dim - size/2] on both axes after
\* every Player.update and after every resize
C2_InBoundsWhenViewportFits ==
    [][((UpdateStep \/ ResizeStep) /\ size'.w >= PlayerSize /\ size'.h >= PlayerSize)
       => InBounds(pos', size')]_vars

\* a resize to a smaller viewport that fits the player has pulled the player in
C2_Witness ==
    /\ size.w = 60
    /\ pos.x = size.w - Half
    /\ steps > 0

\* C2 (as stated): the position is within the bounds for any viewport size
C2_InBoundsAnyViewport ==
    [][(UpdateStep \/ ResizeStep) => InBounds(pos', size')]_vars

\* the tolerance of the speed clamp: a thousandth of maxSpeed, in 1/1000 px/s
SpeedEpsilon == MaxSpeed

C4_OnlyTheJiggleErases ==
    [][/\ (~hasInteracted' /\ DOMAIN ink' = DOMAIN ink
           /\ (\E p \in DOMAIN ink : ink'[p] < ink[p]))
          => jiggleActive'
       /\ (~hasInteracted' /\ ~jiggleActive' /\ jiggleCycleCount' = 0)
          => FullCoverage(ink')]_vars

\* the jiggle hint has lowered ink before any input
C4_Witness ==
    /\ ~hasInteracted
    /\ jiggleActive
    /\ \E p \in DOMAIN ink : ink[p] < 255

\* C4 (as stated): while hasInteracted is false the ink is at full coverage
C4_FullUntilInteraction == ~hasInteracted => FullCoverage(ink)

\* C5: a frame in which the pointer is pressed or a key is held raises the
\* ink alpha of no pixel
C5_NoReinkWhileActive ==
    [][(FrameStep /\ UserInput(pointerActive, keys) /\ DOMAIN ink' = DOMAIN ink)
       => \A p \in DOMAIN ink : ink'[p] <= ink[p]]_vars

\* C6: in the unrevealed phase after the first interaction, once the idle
\* frames since the last input add up to more than 2 seconds the ink is at
\* full coverage
C6_FullAfterTwoIdleSeconds ==
    (hasInteracted /\ ~isRevealed /\ idleClock > 2000) => FullCoverage(ink)

\* more than two seconds of idle frames have followed an interaction
C6_Witness ==
    /\ hasInteracted
    /\ ~isRevealed
    /\ idleClock > 2000
    /\ keys = {}
    /\ ~pointerActive

C8_CancelIsRelease ==
    [][/\ lastEvent' \in {"pointerup", "pointercancel"}
          => /\ ~pointerActive'
             /\ getPointerTarget(pointerActive', pointerPos') = <<>>
             /\ pointerPos' = pointerPos
             /\ keys' = keys
       /\ (lastEvent' = "pointermove" /\ ~pointerActive)
          => /\ pointerPos' = pointerPos
             /\ getPointerTarget(pointerActive', pointerPos') = <<>>]_vars

\* a pressed pointer has been cancelled
C8_Witness ==
    /\ lastEvent = "pointercancel"
    /\ pointerPos \in PointerPoints
    /\ ~pointerActive

EightDirections ==
    {Vec2(x, y) : <<x, y>> \in {<<1000, 0>>, <<-1000, 0>>, <<0, 1000>>, <<0, -1000>>,
                                <<707, 707>>, <<707, -707>>, <<-707, 707>>,
                                <<-707, -707>>}}

\* C9: getAxis() has x = 0 when a left and a right key are held, y = 0 when
\* an up and a down key are held, and is always the zero vector or one of the
\* eight unit directions
C9_AxisCancels ==
    LET a == getAxis(keys)
        left == "ArrowLeft" \in keys \/ "KeyA" \in keys
        right == "ArrowRight" \in keys \/ "KeyD" \in keys
        up == "ArrowUp" \in keys \/ "KeyW" \in keys
        down == "ArrowDown" \in keys \/ "KeyS" \in keys
    IN  /\ (left /\ right) => a.x = 0
        /\ (up /\ down) => a.y = 0
        /\ a = Vec2(0, 0) \/ (a \in EightDirections /\ VecLen(a) = 1000)

\* a left key, a right key and an up key are held together
C9_Witness == {"ArrowLeft", "KeyD", "KeyW"} \subseteq keys

\* the held-key sets compared by C10: a key of each direction, in every
\* combination
AnyKeys == SUBSET {"ArrowLeft", "KeyD", "KeyW", "ArrowDown"}

\* C10: in every frame after the reveal the player's new position and
\* velocity are the same whatever keys are held and whatever the pointer
\* does, and the speed does not increase
C10_InputHasNoInfluence ==
    [][(isRevealed /\ UpdateStep) =>
        /\ \E gap \in KinGaps :
               \A k \in AnyKeys, ptr \in KinPointers :
                   LET u == LoopPlayerUpdate(pos, vel, FrameDt(gap), ptr[1],
                                             ptr[2], k, isRevealed, size)
                   IN  pos' = u.pos /\ vel' = u.vel
        /\ NoFaster(vel', vel)]_vars

\* after the reveal a frame has run with a key held and the pointer pressed,
\* and the player still moves
C10_Witness ==
    /\ isRevealed
    /\ steps = MaxKinSteps
    /\ keys # {}
    /\ pointerActive
    /\ vel # Vec2(0, 0)

---------------------------------------------------------------------------
(* SpecLive: Spec with the browser delivering the frames the loop requests *)

\* a frame of Spec, by what every frame does to frameCount (line 582): under
\* Next the steps of this action are the steps of BeforeHint /\ Frame, and it
\* is enabled when loop() has requested a frame (it has not returned at
\* line 693)
FrameDelivered ==
    BeforeHint /\ ~redirected /\ frameCount' = (frameCount + 1) % 5

\* requestAnimationFrame(loop), lines 873 and 875: a requested frame is
\* delivered
SpecLive == Init /\ [][Next]_vars /\ WF_frameCount(FrameDelivered)

\* the variables only loop() writes, and the player's velocity
LoopVars == <<vel, hasInteracted, inkAccumulator, isRevealed, revealProgress,
              fadeDelay, frameCount, redirectTimer, idleTime, jiggleActive,
              postJigglePause, jiggleCycleCount, redirected>>

---------------------------------------------------------------------------
(* SpecReink: the re-ink block of lines 788-815 applied again and again to
   a fully covered ink layer *)

\* dt in ms.  The frame loop passes at most MaxDtMs; the longer ones take
\* alphaStep = min(1, 0.3 * boost * dt) through the rest of [0, 1]
ReinkDts == {0, 16, 50, 130, 450}

InitReink ==
    LET r == ResizeState(InkPoints, InitWindow[1], InitWindow[2], InitWindow[3])
    IN  /\ devicePixelRatio = InitWindow[3]
        /\ size = r.size
        /\ inkW = r.inkW
        /\ inkH = r.inkH
        /\ ink = r.ink
        /\ keys = {}
        /\ pointerActive = FALSE
        /\ pointerPos = Vec2(0, 0)
        /\ pos = Vec2(r.size.w \div 2, r.size.h \div 2)
        /\ vel = Vec2(0, 0)
        /\ hasInteracted = TRUE
        /\ inkAccumulator = 0
        /\ isRevealed = FALSE
        /\ revealProgress = 0
        /\ fadeDelay = 0
        /\ frameCount = 0
        /\ redirectTimer = 0
        /\ idleTime = 0
        /\ jiggleActive = FALSE
        /\ postJigglePause = 0
        /\ jiggleCycleCount = 0
        /\ redirected = FALSE
        /\ lastEvent = "init"
        /\ idleClock = 0
        /\ steps = 0

\* lines 788-815 for a frame of dt ms, isActive as given
ReinkBlock(dt, isActive) ==
    /\ ReinkRuns(hasInteracted, postJigglePause, idleTime, isRevealed)
    /\ inkAccumulator' = ReinkAccumulate(inkAccumulator, isActive, jiggleActive, dt)
    /\ ink' = Reink(ink, inkAccumulator', dt)
    /\ UNCHANGED <<devicePixelRatio, size, inkW, inkH, keys, pointerActive,
                   pointerPos, pos, vel, hasInteracted, isRevealed,
                   revealProgress, fadeDelay, frameCount, redirectTimer,
                   idleTime, jiggleActive, postJigglePause, jiggleCycleCount,
                   redirected, lastEvent, idleClock, steps>>

NextReink == \E dt \in ReinkDts, isActive \in BOOLEAN : ReinkBlock(dt, isActive)

SpecReink == InitReink /\ [][NextReink]_vars

\* C13: re-ink is idempotent on a fully covered buffer: with every ink pixel
\* at alpha 255, the re-ink step, at any alphaStep in [0, 1] and with or
\* without the hard fill, applied any number of times, leaves every pixel at
\* alpha 255
C13_ReinkKeepsFullCoverage == FullCoverage(ink)

\* the soft fill has run many times on the full layer and the hard fill has
\* followed it
C13_Witness ==
    /\ inkAccumulator > HardFillMs
    /\ DOMAIN ink # {}
    /\ FullCoverage(ink)

\* at least 98% of the sample points of the text region have ink alpha below
\* 128
MostlyRevealed(layer, sz) ==
    /\ SampleGrid(sz) # {}
    /\ 100 * Cardinality({p \in SampleGrid(sz) \cap DOMAIN layer : layer[p] < 128})
           >= 98 * Cardinality(SampleGrid(sz))

\* C14 (as amended): in the unrevealed phase after the first interaction, on
\* every sampling frame (frameCount a multiple of 5) in which the pointer is
\* pressed or a key is held, if at least 98% of the sample points have ink
\* alpha below 128 when the frame starts then isRevealed is true by the end
\* of that frame
C14_RevealOnActiveSamplingFrame ==
    [][(/\ FrameStep
        /\ hasInteracted
        /\ ~isRevealed
        /\ frameCount' = 0
        /\ UserInput(pointerActive, keys)
        /\ MostlyRevealed(ink, size))
       => isRevealed']_vars

\* the sampling frame that revealed the scene has just ended
C14_Witness ==
    /\ isRevealed
    /\ fadeDelay = 0
    /\ frameCount = 0
    /\ UserInput(pointerActive, keys)
    /\ MostlyRevealed(ink, size)

\* C14 (as stated): the same on every sampling frame, with or without input
C14_RevealOnEverySamplingFrame ==
    [][(/\ FrameStep
        /\ hasInteracted
        /\ ~isRevealed
        /\ frameCount' = 0
        /\ MostlyRevealed(ink, size))
       => isRevealed']_vars

\* the pointer is pressed or a whitelisted key is held
GenuineInput == pointerActive \/ keys \cap WhitelistedCodes # {}

\* C15: hasInteracted becomes true only in a frame that samples the pointer
\* pressed or a whitelisted key held; a frame of the jiggle hint, which sets
\* the player's velocity, leaves it false; and once true it stays true
C15_OnlyInputSetsHasInteracted ==
    /\ [][(hasInteracted' /\ ~hasInteracted) => (FrameStep /\ GenuineInput)]_vars
    /\ [][(FrameStep /\ jiggleActive /\ ~GenuineInput) => ~hasInteracted']_vars
    /\ [][hasInteracted => hasInteracted']_vars

\* a frame has sampled a held key, set hasInteracted and let the brush erase
C15_Witness ==
    /\ hasInteracted
    /\ keys # {}
    /\ ~pointerActive
    /\ ~jiggleActive
    /\ \E p \in DOMAIN ink : ink[p] < 255
    /\ steps = MaxHintSteps

\* C16 (as amended): revealProgress and redirectTimer never decrease;
\* inkAccumulator does not decrease over a frame without input that leaves
\* the jiggle hint inactive; inkAccumulator is zero at the end of every frame
\* with input that ends in the unrevealed phase; and only frames change the
\* three timers
C16_TimersAdvanceAndInkTimerResets ==
    /\ [][revealProgress' >= revealProgress /\ redirectTimer' >= redirectTimer]_vars
    /\ [][(FrameStep /\ ~UserInput(pointerActive, keys) /\ ~jiggleActive')
          => inkAccumulator' >= inkAccumulator]_vars
    /\ [][(FrameStep /\ UserInput(pointerActive, keys) /\ ~isRevealed')
          => inkAccumulator' = 0]_vars
    /\ [][~FrameStep
          => UNCHANGED <<inkAccumulator, revealProgress, redirectTimer>>]_vars

\* in the unrevealed phase a frame with the pointer pressed has run the
\* brush and left the accumulator at zero
C16_Witness ==
    /\ hasInteracted
    /\ ~isRevealed
    /\ pointerActive
    /\ inkAccumulator = 0
    /\ idleClock = 0
    /\ \E p \in DOMAIN ink : ink[p] < 255

\* C16 (as stated): no timer decreases while its condition holds, and each of
\* the three is zero at the end of every frame with input
C16_TimersZeroUnderInput ==
    /\ [][revealProgress' >= revealProgress /\ redirectTimer' >= redirectTimer]_vars
    /\ [][(FrameStep /\ ~UserInput(pointerActive, keys) /\ ~jiggleActive')
          => inkAccumulator' >= inkAccumulator]_vars
    /\ [][(FrameStep /\ UserInput(pointerActive, keys))
          => /\ inkAccumulator' = 0
             /\ revealProgress' = 0
             /\ redirectTimer' = 0]_vars

\* lines 647 and 867: the end of the orbit stage, in ms
OrbitMs == 5000

\* the stage of the scene at the end of a frame: 0 play, 1 fade, 2 text rise,
\* 3 orbit, 4 black hold, 5 redirect
Stage ==
    IF ~isRevealed THEN 0
    ELSE IF redirected THEN 5
    ELSE IF revealProgress = 0 THEN 1
    ELSE IF revealProgress < 1000000 THEN 2
    ELSE IF redirectTimer < OrbitMs THEN 3
    ELSE 4

\* C17: the epilogue's stages come in a fixed order: revealProgress is above
\* 0 only once fadeDelay has reached 1.5 s, redirectTimer is above 0 only
\* once revealProgress has reached 1, the orbit covers countdowns below 5 s
\* and the black hold [5 s, 6 s), the redirect is triggered only at a
\* countdown of 6 s or more, and every step keeps the stage or moves to the
\* next one
C17_StagesInOrder ==
    /\ [](revealProgress > 0 => (isRevealed /\ fadeDelay >= TextDelayMs))
    /\ [](redirectTimer > 0 => revealProgress >= 1000000)
    /\ [](redirected <=> (isRevealed /\ redirectTimer >= RedirectMs))
    /\ [](Stage = 4 => (redirectTimer >= OrbitMs /\ redirectTimer < RedirectMs))
    /\ [][Stage' = Stage \/ Stage' = Stage + 1]_vars
    /\ [][Stage' # Stage => FrameStep]_vars

\* the scene is in the black hold, after the fade, the text rise and the
\* orbit
C17_Witness ==
    /\ Stage = 4
    /\ fadeDelay >= FadeWindowMs
    /\ revealProgress = 1000000
    /\ redirectTimer >= OrbitMs
    /\ ~redirected

---------------------------------------------------------------------------
(* SpecFollow: frames of a scene in play with the pointer pressed, for the
   pointer-follow branch of Player.update *)

\* targets far from the player and next to it, inside the player's range and
\* outside it (pointer capture reports points outside)
FollowPointers ==
    {Vec2(29, 19), Vec2(95, 22), Vec2(41, 22), Vec2(21, 20), Vec2(58, 23)}

InitFollow ==
    LET r == ResizeState(InkPoints, InitWindow[1], InitWindow[2], InitWindow[3])
    IN  /\ devicePixelRatio = InitWindow[3]
        /\ size = r.size
        /\ inkW = r.inkW
        /\ inkH = r.inkH
        /\ ink = r.ink
        /\ keys \in KinKeySets
        /\ pointerActive = TRUE
        /\ pointerPos \in FollowPointers
        /\ pos \in KinPositions(r.size)
        /\ vel \in {Vec2(x, y) : x \in KinVelocities, y \in KinVelocities}
        /\ hasInteracted = TRUE
        /\ inkAccumulator = 0
        /\ isRevealed = FALSE
        /\ revealProgress = 0
        /\ fadeDelay = 0
        /\ frameCount = 0
        /\ redirectTimer = 0
        /\ idleTime = 0
        /\ jiggleActive = FALSE
        /\ postJigglePause = 0
        /\ jiggleCycleCount = 0
        /\ redirected = FALSE
        /\ lastEvent = "init"
        /\ idleClock = 0
        /\ steps = 0

NextFollow ==
    /\ steps < MaxKinSteps
    /\ steps' = steps + 1
    /\ UNCHANGED lastEvent
    /\ FrameKin

SpecFollow == InitFollow /\ [][NextFollow]_vars

\* a frame that ran the pointer-follow branch of Player.update
FollowFrame == UpdateStep /\ pointerActive /\ ~isRevealed

\* the squared distance from the player to the pointer target
FollowDistance2 ==
    (pointerPos.x - pos.x) * (pointerPos.x - pos.x)
    + (pointerPos.y - pos.y) * (pointerPos.y - pos.y)

\* 12 (target - position), in 1/1000 px/s
FollowVelocity ==
    Vec2(FollowSpeed * 1000 * (pointerPos.x - pos.x),
         FollowSpeed * 1000 * (pointerPos.y - pos.y))

\* the player is at no edge of its range
OffEdges(p, sz) ==
    /\ p.x # Half /\ p.x # sz.w - Half
    /\ p.y # Half /\ p.y # sz.h - Half

\* the held keys and the old velocity make no difference to the update
FollowIgnoresKeys ==
    \E gap \in KinGaps :
        \A k \in AnyKeys, vx \in KinVelocities, vy \in KinVelocities :
            LET u == LoopPlayerUpdate(pos, Vec2(vx, vy), FrameDt(gap), TRUE,
                                      pointerPos, k, FALSE, size)
            IN  pos' = u.pos /\ vel' = u.vel

\* the snap: the position is the clamped target and the velocity zero
FollowSnaps ==
    /\ vel' = Vec2(0, 0)
    /\ pos' = Vec2(clamp(pointerPos.x, Half, size.w - Half),
                   clamp(pointerPos.y, Half, size.h - Half))

\* the velocity is 12 (target - position) where that is within maxSpeed, and
\* has its direction otherwise (up to the edge bounce of lines 159-162)
FollowSteers ==
    /\ NoFaster(FollowVelocity, Vec2(MaxSpeed * 1000, 0))
       => vel' = BounceAt(pos'.x, pos'.y, FollowVelocity, size).vel
    /\ (~NoFaster(FollowVelocity, Vec2(MaxSpeed * 1000, 0)) /\ OffEdges(pos', size))
       => /\ Abs(vel'.x * (pointerPos.y - pos.y) - vel'.y * (pointerPos.x - pos.x))
                <= 100 * (Abs(pointerPos.x - pos.x) + Abs(pointerPos.y - pos.y))
          /\ vel'.x * (pointerPos.x - pos.x) + vel'.y * (pointerPos.y - pos.y) > 0
          /\ NoFaster(Vec2(MaxSpeed * 1000 - SpeedEpsilon, 0), vel')

AtRest(v) == VecLen(v) < 100

\* C19: at the end of every frame jiggleActive implies that hasInteracted is
\* false and that the frame sampled no input, and after the first
\* interaction the hint never runs; jiggleActive becomes true only in a
\* frame without input, before the first interaction, with the player at
\* rest, that brings postJigglePause to JIGGLE_DELAY or more; and
\* postJigglePause grows only in such frames, by the frame's dt
C19_JiggleOnlyWhileIdle ==
    /\ [](jiggleActive => ~hasInteracted)
    /\ [][(FrameStep /\ jiggleActive')
          => (~hasInteracted' /\ ~UserInput(pointerActive, keys))]_vars
    /\ [][(jiggleActive' /\ ~jiggleActive)
          => /\ FrameStep
             /\ ~hasInteracted'
             /\ ~UserInput(pointerActive, keys)
             /\ AtRest(vel')
             /\ \E gap \in Gaps : postJigglePause + FrameDt(gap) >= JIGGLE_DELAY]_vars
    /\ [][postJigglePause' > postJigglePause
          => /\ FrameStep
             /\ ~hasInteracted'
             /\ ~UserInput(pointerActive, keys)
             /\ AtRest(vel')
             /\ ~jiggleActive
             /\ \E gap \in Gaps : postJigglePause' = postJigglePause + FrameDt(gap)]_vars

\* the hint is in its second cycle, started after a second pause, and a key
\* has just been pressed: the next frame stops it
C19_Witness ==
    /\ jiggleActive
    /\ jiggleCycleCount >= 1
    /\ idleTime > 0
    /\ keys # {}
    /\ ~hasInteracted

\* C20: a frame in which the jiggle hint is active raises the ink alpha of no
\* pixel
C20_NoReinkDuringJiggle ==
    [][(FrameStep /\ jiggleActive /\ jiggleActive' /\ DOMAIN ink' = DOMAIN ink)
       => \A p \in DOMAIN ink : ink'[p] <= ink[p]]_vars

\* line 152: the step vel * dt that Player.update adds to the position, in
\* 1/1000000 px, from the state before the update
UpdateStepVector(dt) ==
    VecScale(ClampSpeed(ControlStep(pos, vel, dt,
                                    getPointerTarget(pointerActive, pointerPos),
                                    keys, ~isRevealed).vel),
             dt, 1)

\* a frame of dt ms took the player from pos to pos' and vel to vel'
UpdatedBy(dt) ==
    LET u == LoopPlayerUpdate(pos, vel, dt, pointerActive, pointerPos, keys,
                              isRevealed, size)
    IN  pos' = u.pos /\ vel' = u.vel

\* maxSpeed * 0.05 s, in px
MaxStepPx == (MaxSpeed * MaxDtMs) \div 1000

InkNotRaised ==
    \A p \in DOMAIN ink \cap DOMAIN ink' : ink'[p] <= ink[p]

\* C22: once the scene is revealed no step (frame, key or pointer event,
\* resize) raises the ink alpha of any pixel, and once the 2-second bleed
\* window has ended no step writes the ink layer
C22_InkNeverRisesAfterReveal ==
    [][isRevealed =>
        /\ InkNotRaised
        /\ fadeDelay >= FadeWindowMs => ink' = ink]_vars

\* lines 113-149: the velocity Player.update integrates, before the bounce
VelocityBeforeBounce(dt) ==
    ClampSpeed(ControlStep(pos, vel, dt,
                           getPointerTarget(pointerActive, pointerPos),
                           keys, ~isRevealed).vel)

\* coordinate c on the low edge has v >= 0, on the high edge v <= 0
NotIntoEdge(c, v, lo, hi) ==
    /\ c = lo => v >= 0
    /\ c = hi => v <= 0

\* v is w, or w multiplied by -0.3 once
BouncedAtMostOnce(v, w) == v \in {w, -RoundDiv(3 * w, 10)}

\* C23: after every Player.update the player does not rest on a viewport
\* boundary with a velocity component pointing into it (pos.x = size/2 gives
\* vel.x >= 0, pos.x = width - size/2 gives vel.x <= 0, likewise for y); each
\* component is multiplied by -0.3 at most once in the frame and the bounce
\* does not increase the speed
C23_NoVelocityIntoBoundary ==
    [][UpdateStep =>
        \E gap \in KinGaps :
            /\ UpdatedBy(FrameDt(gap))
            /\ NotIntoEdge(pos'.x, vel'.x, Half, size.w - Half)
            /\ NotIntoEdge(pos'.y, vel'.y, Half, size.h - Half)
            /\ BouncedAtMostOnce(vel'.x, VelocityBeforeBounce(FrameDt(gap)).x)
            /\ BouncedAtMostOnce(vel'.y, VelocityBeforeBounce(FrameDt(gap)).y)
            /\ NoFaster(vel', VelocityBeforeBounce(FrameDt(gap)))]_vars

====
